---------------------------- MODULE Spec2Model ----------------------------
(* Model of the zap-receipt relay query of src/src/lib/zap.ts:             *)
(*   parseZapReceipt            (lines 769-851)  the receipt matcher       *)
(*   fetchZapReceiptForInvoice  (lines 857-984)  the multi-relay query     *)
(*   fetchZapReceiptsForInvoices (lines 989-1010) the batch variant        *)
(*   fetchZapReceiptForPayment  (lines 1623-1656) the payment enrichment   *)
(* Spec is one query: its per-call state (zapReceipt, completedRelays,     *)
(* totalRelays), one branch per relay, the per-relay 5 s timers and the    *)
(* overall 10 s timer.  Every JavaScript callback (a macrotask together    *)
(* with the promise reactions it triggers) is one action.  SpecMatcher is  *)
(* a one-relay query receiving one arbitrary record; SpecBatch is a batch  *)
(* of concurrent queries; SpecPayment is the enrichment of one payment.    *)
EXTENDS Integers, Sequences, FiniteSets, TLC

-----------------------------------------------------------------------------
(* Bounds of the model *)

\* largest relayUrls.length a call is made with
MaxRelays == 2

\* largest number of records the relays deliver to onevent during one query
MaxEvents == 2

\* number of relays each query of a batch is made with
BatchRelays == 1

\* the clock stops after this many ticks
MaxTicks == 3

(* Program constants *)

\* setTimeout(..., 5000) of a relay branch
PerRelayTimeoutMs == 5000

\* setTimeout(..., 10000) of the whole query
OverallTimeoutMs == 10000

\* kind of a zap request (NIP-57)
ZapRequestKind == 9734

\* kind of a zap receipt (NIP-57), the kinds member of the filter
ZapReceiptKind == 9735

\* the limit member of the filter
FilterLimit == 50

\* granularity of the model's clock
TickMs == PerRelayTimeoutMs

-----------------------------------------------------------------------------
(* JavaScript values *)

\* the value undefined, where a string is expected
Undef == "<undefined>"

\* the number-typed counterpart of undefined (a JSON object without "kind")
NoKind == -1

\* the value null of the match slot and of the query result
Null == [isNull |-> TRUE]

\* !v for a string-or-undefined value
Falsy(v) == v = Undef \/ v = ""

-----------------------------------------------------------------------------
(* Records and the matcher *)

\* JSON.parse of a description tag: ok = FALSE is a SyntaxError; isNull is the
\* JSON text "null"; otherwise an object with its kind, pubkey and content
\* members (Undef / NoKind when the member is absent).
JsonError == [ok |-> FALSE, isNull |-> FALSE, kind |-> NoKind, pubkey |-> Undef, content |-> Undef]
JsonNull == [ok |-> TRUE, isNull |-> TRUE, kind |-> NoKind, pubkey |-> Undef, content |-> Undef]
JsonObj(k, p, c) == [ok |-> TRUE, isNull |-> FALSE, kind |-> k, pubkey |-> p, content |-> c]

JsonParse(s) ==
  CASE s = "{\"kind\":9734,\"pubkey\":\"sender1\",\"content\":\"gm\"}" -> JsonObj(9734, "sender1", "gm")
    [] s = "{\"kind\":9734,\"pubkey\":\"sender2\"}" -> JsonObj(9734, "sender2", Undef)
    [] s = "{\"kind\":9734,\"pubkey\":\"sender2\",\"content\":\"\"}" -> JsonObj(9734, "sender2", "")
    [] s = "{\"kind\":9734,\"pubkey\":\"\",\"content\":\"gm\"}" -> JsonObj(9734, "", "gm")
    [] s = "{\"kind\":9734,\"content\":\"gm\"}" -> JsonObj(9734, Undef, "gm")
    [] s = "{\"kind\":1,\"pubkey\":\"sender1\",\"content\":\"gm\"}" -> JsonObj(1, "sender1", "gm")
    [] s = "{\"pubkey\":\"sender1\",\"content\":\"gm\"}" -> JsonObj(NoKind, "sender1", "gm")
    [] s = "null" -> JsonNull
    [] OTHER -> JsonError

\* FindFrom that keeps the last tag with that key (a loop that does not stop
\* at the first one)
RECURSIVE FindFromLast(_, _, _)
FindFromLast(tags, key, i) ==
  IF i > Len(tags) THEN 0
  ELSE IF FindFromLast(tags, key, i + 1) # 0 THEN FindFromLast(tags, key, i + 1)
  ELSE IF Len(tags[i]) >= 1 /\ tags[i][1] = key THEN i
  ELSE 0

\* tags.find(t => t[0] === key): index of the first tag with that key, 0 if none
RECURSIVE FindFrom(_, _, _)
FindFrom(tags, key, i) ==
  IF i > Len(tags) THEN 0
  ELSE IF Len(tags[i]) >= 1 /\ tags[i][1] = key THEN i
  ELSE FindFrom(tags, key, i + 1)

\* tags.find(t => t[0] === key)?.[1]
TagValue(tags, key) ==
  LET i == FindFrom(tags, key, 1)
  IN IF i = 0 THEN Undef
     ELSE IF Len(tags[i]) >= 2 THEN tags[i][2] ELSE Undef

\* parseZapReceipt without the comparison of line 785
parseZapReceiptNoInvoiceCheck(event, invoice) ==
  LET bolt11 == TagValue(event.tags, "bolt11")
      description == TagValue(event.tags, "description")
      zapRequest == JsonParse(description)
      recipientPubkey == TagValue(event.tags, "p")
      senderPubkey == zapRequest.pubkey
      eventId == TagValue(event.tags, "e")
      comment == IF Falsy(zapRequest.content) THEN "" ELSE zapRequest.content
  IN IF Falsy(bolt11) THEN Null
     ELSE IF Falsy(description) THEN Null
     ELSE IF ~zapRequest.ok THEN Null
     ELSE IF zapRequest.isNull THEN Null
     ELSE IF zapRequest.kind # ZapRequestKind THEN Null
     ELSE IF Falsy(recipientPubkey) THEN Null
     ELSE IF Falsy(senderPubkey) THEN Null
     ELSE [senderPubkey |-> senderPubkey, recipientPubkey |-> recipientPubkey,
           eventId |-> eventId, comment |-> comment]

\* parseZapReceipt without the sender gate of lines 829-832
parseZapReceiptNoSenderCheck(event, invoice) ==
  LET bolt11 == TagValue(event.tags, "bolt11")
      description == TagValue(event.tags, "description")
      zapRequest == JsonParse(description)
      recipientPubkey == TagValue(event.tags, "p")
      senderPubkey == zapRequest.pubkey
      eventId == TagValue(event.tags, "e")
      comment == IF Falsy(zapRequest.content) THEN "" ELSE zapRequest.content
  IN IF Falsy(bolt11) THEN Null
     ELSE IF bolt11 # invoice THEN Null
     ELSE IF Falsy(description) THEN Null
     ELSE IF ~zapRequest.ok THEN Null
     ELSE IF zapRequest.isNull THEN Null
     ELSE IF zapRequest.kind # ZapRequestKind THEN Null
     ELSE IF Falsy(recipientPubkey) THEN Null
     ELSE [senderPubkey |-> senderPubkey, recipientPubkey |-> recipientPubkey,
           eventId |-> eventId, comment |-> comment]

\* parseZapReceipt without the default || '' of line 839
parseZapReceiptRawComment(event, invoice) ==
  LET bolt11 == TagValue(event.tags, "bolt11")
      description == TagValue(event.tags, "description")
      zapRequest == JsonParse(description)
      recipientPubkey == TagValue(event.tags, "p")
      senderPubkey == zapRequest.pubkey
      eventId == TagValue(event.tags, "e")
      comment == zapRequest.content
  IN IF Falsy(bolt11) THEN Null
     ELSE IF bolt11 # invoice THEN Null
     ELSE IF Falsy(description) THEN Null
     ELSE IF ~zapRequest.ok THEN Null
     ELSE IF zapRequest.isNull THEN Null
     ELSE IF zapRequest.kind # ZapRequestKind THEN Null
     ELSE IF Falsy(recipientPubkey) THEN Null
     ELSE IF Falsy(senderPubkey) THEN Null
     ELSE [senderPubkey |-> senderPubkey, recipientPubkey |-> recipientPubkey,
           eventId |-> eventId, comment |-> comment]

\* parseZapReceipt(event, invoice): the match, or Null
parseZapReceipt(event, invoice) ==
  LET bolt11 == TagValue(event.tags, "bolt11")
      description == TagValue(event.tags, "description")
      zapRequest == JsonParse(description)
      recipientPubkey == TagValue(event.tags, "p")
      senderPubkey == zapRequest.pubkey
      eventId == TagValue(event.tags, "e")
      comment == IF Falsy(zapRequest.content) THEN "" ELSE zapRequest.content
  IN IF Falsy(bolt11) THEN Null
     ELSE IF bolt11 # invoice THEN Null
     ELSE IF Falsy(description) THEN Null
     ELSE IF ~zapRequest.ok THEN Null
     ELSE IF zapRequest.isNull THEN Null      \* TypeError, caught at line 847
     ELSE IF zapRequest.kind # ZapRequestKind THEN Null
     ELSE IF Falsy(recipientPubkey) THEN Null
     ELSE IF Falsy(senderPubkey) THEN Null
     ELSE [senderPubkey |-> senderPubkey, recipientPubkey |-> recipientPubkey,
           eventId |-> eventId, comment |-> comment]

\* parseZapReceipt with the recipient looked up before the description
parseZapReceiptExitRecipientFirst(event, invoice) ==
  LET bolt11 == TagValue(event.tags, "bolt11")
      description == TagValue(event.tags, "description")
      zapRequest == JsonParse(description)
      recipientPubkey == TagValue(event.tags, "p")
  IN IF Falsy(bolt11) THEN [gate |-> 1, log |-> ""]
     ELSE IF bolt11 # invoice THEN [gate |-> 2, log |-> ""]
     ELSE IF Falsy(recipientPubkey) THEN [gate |-> 6, log |-> "No recipient in zap receipt"]
     ELSE IF Falsy(description) THEN [gate |-> 3, log |-> "No description in zap receipt"]
     ELSE IF ~zapRequest.ok THEN [gate |-> 4, log |-> "Failed to parse zap request:"]
     ELSE IF zapRequest.isNull THEN [gate |-> 5, log |-> "Error parsing zap receipt:"]
     ELSE IF zapRequest.kind # ZapRequestKind
          THEN [gate |-> 5, log |-> "Description is not a zap request"]
     ELSE IF Falsy(zapRequest.pubkey) THEN [gate |-> 7, log |-> "No sender in zap request"]
     ELSE [gate |-> 0, log |-> ""]

\* where parseZapReceipt(event, invoice) returns and what it logs as a warning
\* or an error: gate 0 is the return of the match (line 841), gates 1 to 7 are
\* the returns of null at lines 781, 787, 800, 809, 814 (and the TypeError of
\* line 812, caught at line 847), 823 and 831
parseZapReceiptExit(event, invoice) ==
  LET bolt11 == TagValue(event.tags, "bolt11")
      description == TagValue(event.tags, "description")
      zapRequest == JsonParse(description)
      recipientPubkey == TagValue(event.tags, "p")
  IN IF Falsy(bolt11) THEN [gate |-> 1, log |-> ""]
     ELSE IF bolt11 # invoice THEN [gate |-> 2, log |-> ""]
     ELSE IF Falsy(description) THEN [gate |-> 3, log |-> "No description in zap receipt"]
     ELSE IF ~zapRequest.ok THEN [gate |-> 4, log |-> "Failed to parse zap request:"]
     ELSE IF zapRequest.isNull THEN [gate |-> 5, log |-> "Error parsing zap receipt:"]
     ELSE IF zapRequest.kind # ZapRequestKind
          THEN [gate |-> 5, log |-> "Description is not a zap request"]
     ELSE IF Falsy(recipientPubkey) THEN [gate |-> 6, log |-> "No recipient in zap receipt"]
     ELSE IF Falsy(zapRequest.pubkey) THEN [gate |-> 7, log |-> "No sender in zap request"]
     ELSE [gate |-> 0, log |-> ""]

-----------------------------------------------------------------------------
(* Inputs *)

\* invoices a query is made for
Invoices == {"lnbc100n1p", "lnbc200n1p"}

\* recipientPubkey of the query
Recipient == "abc123"

ZapRequest1 == "{\"kind\":9734,\"pubkey\":\"sender1\",\"content\":\"gm\"}"
ZapRequest2 == "{\"kind\":9734,\"pubkey\":\"sender2\"}"

\* records a relay may deliver to onevent: two receipts of invoice lnbc100n1p
\* (the second for a note) and one whose description is not JSON
RelayEvents ==
  { [tags |-> << <<"bolt11", "lnbc100n1p">>, <<"description", ZapRequest1>>, <<"p", Recipient>> >>],
    [tags |-> << <<"bolt11", "lnbc100n1p">>, <<"description", ZapRequest2>>, <<"p", Recipient>>,
                 <<"e", "note1">> >>],
    [tags |-> << <<"bolt11", "lnbc100n1p">>, <<"description", "not json">>, <<"p", Recipient>> >>] }

Relays == 1..MaxRelays

-----------------------------------------------------------------------------
(* State of one fetchZapReceiptForInvoice call *)

VARIABLES
  called,           \* the call has been made
  invoice,          \* parameter invoice
  totalRelays,      \* relayUrls.length
  zapReceipt,       \* the shared match slot
  completedRelays,  \* the EOSE counter
  conn,             \* per relay: "none" | "connecting" | "connected" | "failed"
  sub,              \* per relay: "none" | "open" | "closed"
  eose,             \* per relay: oneose has run
  deadline,         \* per relay: when its setTimeout is due, -1 before it is set
  timerFired,       \* per relay: its setTimeout callback has run
  relayResolved,    \* per relay: relayPromises[r] is settled
  overallFired,     \* the overall setTimeout callback has run
  resolved,         \* the promise returned to the caller is settled
  result,           \* the value it settled with
  now,              \* the clock, in ms
  arrivals,         \* history: the records handed to onevent, in arrival order
  rejected,         \* the promise returned to the caller is rejected
  matcher,          \* the record under study of the matcher's specification
  batch,            \* the state of one fetchZapReceiptsForInvoices call
  recipientPubkey,  \* parameter recipientPubkey
  filter,           \* per relay: the filter its subscription was opened with
  payment           \* the state of one fetchZapReceiptForPayment call

vars == <<called, invoice, totalRelays, zapReceipt, completedRelays, conn, sub, eose,
          deadline, timerFired, relayResolved, overallFired, resolved, result, now,
          arrivals, rejected, matcher, batch, recipientPubkey, filter, payment>>

\* no record is under study
MatcherIdle ==
  [event |-> [tags |-> << >>], applied |-> FALSE, parsed |-> Null, gate |-> 0, log |-> ""]

\* fetchZapReceiptsForInvoices has not been called
BatchIdle ==
  [called |-> FALSE, invoices |-> << >>, q |-> << >>, results |-> << >>, returned |-> FALSE]

\* the filter of relay.subscribe([filter], ...) for a recipientPubkey argument
SubscriptionFilter(rcpt) ==
  [kinds |-> <<ZapReceiptKind>>, p |-> <<rcpt>>, limit |-> FilterLimit]

\* no subscription, no filter
NoFilter == [kinds |-> << >>, p |-> << >>, limit |-> 0]

\* a BreezPaymentInfo object: the members the enrichment reads or writes; the
\* optional boolean isZap is Undef, "false" or "true"
PaymentInfo(type, zap, inv, sender, rcpt, eid, comment) ==
  [paymentType |-> type, isZap |-> zap, invoice |-> inv, zapSenderPubkey |-> sender,
   zapRecipientPubkey |-> rcpt, zapEventId |-> eid, zapComment |-> comment]

\* fetchZapReceiptForPayment has not been called: given is the payment as it
\* was passed, fields the payment object as it is now, stage the position of
\* the call ("idle", "import", "query", "returned"), q the query it started
\* (a sequence of none or one), threw whether the returned promise rejected
PaymentIdle ==
  [called |-> FALSE, given |-> PaymentInfo("send", Undef, Undef, Undef, Undef, Undef, Undef),
   fields |-> PaymentInfo("send", Undef, Undef, Undef, Undef, Undef, Undef),
   userPubkey |-> Undef, stage |-> "idle", q |-> << >>, threw |-> FALSE]

\* the relays of this call
Active == 1..totalRelays

Init ==
  /\ called = FALSE
  /\ invoice = ""
  /\ totalRelays = 0
  /\ zapReceipt = Null
  /\ completedRelays = 0
  /\ conn = [r \in Relays |-> "none"]
  /\ sub = [r \in Relays |-> "none"]
  /\ eose = [r \in Relays |-> FALSE]
  /\ deadline = [r \in Relays |-> -1]
  /\ timerFired = [r \in Relays |-> FALSE]
  /\ relayResolved = [r \in Relays |-> FALSE]
  /\ overallFired = FALSE
  /\ resolved = FALSE
  /\ result = Null
  /\ now = 0
  /\ arrivals = << >>
  /\ rejected = FALSE
  /\ matcher = MatcherIdle
  /\ batch = BatchIdle
  /\ recipientPubkey = Undef
  /\ filter = [r \in Relays |-> NoFilter]
  /\ payment = PaymentIdle

\* Join with a promise that could be settled again: the last resolve() wins
JoinSettlesAgain(n, rr, zr) ==
  IF \A r \in 1..n : rr[r]
  THEN resolved' = TRUE /\ result' = zr
  ELSE UNCHANGED <<resolved, result>>

\* Promise.all(relayPromises).then(() => resolve(zapReceipt)), given the settled
\* relay promises rr and the slot zr after the running callback; resolve() of an
\* already settled promise does nothing.
Join(n, rr, zr) ==
  IF ~resolved /\ \A r \in 1..n : rr[r]
  THEN resolved' = TRUE /\ result' = zr
  ELSE UNCHANGED <<resolved, result>>

\* the call itself: per-call state, one branch per relay (each suspends at
\* await relay.connect()), Promise.all and the overall timer
Call(inv, n) ==
  /\ ~called
  /\ called' = TRUE
  /\ invoice' = inv
  /\ totalRelays' = n
  /\ conn' = [r \in Relays |-> IF r <= n THEN "connecting" ELSE "none"]
  /\ Join(n, relayResolved, zapReceipt)
  /\ recipientPubkey' = Recipient
  /\ UNCHANGED <<zapReceipt, completedRelays, sub, eose, deadline, timerFired,
                 relayResolved, overallFired, now, arrivals, filter>>
  /\ UNCHANGED <<rejected, matcher, batch, payment>>

\* await relay.connect() returns: subscribe and arm the 5 s timer
ConnectOk(r) ==
  /\ called /\ r \in Active
  /\ conn[r] = "connecting"
  /\ conn' = [conn EXCEPT ![r] = "connected"]
  /\ sub' = [sub EXCEPT ![r] = "open"]
  /\ filter' = [filter EXCEPT ![r] = SubscriptionFilter(recipientPubkey)]
  /\ deadline' = [deadline EXCEPT ![r] = now + PerRelayTimeoutMs]
  /\ UNCHANGED <<called, invoice, totalRelays, zapReceipt, completedRelays, eose,
                 timerFired, relayResolved, overallFired, resolved, result, now, arrivals>>
  /\ UNCHANGED <<rejected, matcher, batch, payment, recipientPubkey>>

\* ConnectFail whose error is passed on to the caller: the promise returned by
\* the query is rejected
ConnectFailRejectsQuery(r) ==
  /\ called /\ r \in Active
  /\ conn[r] = "connecting"
  /\ conn' = [conn EXCEPT ![r] = "failed"]
  /\ relayResolved' = [relayResolved EXCEPT ![r] = TRUE]
  /\ IF ~resolved THEN rejected' = TRUE ELSE UNCHANGED rejected
  /\ UNCHANGED <<called, invoice, totalRelays, zapReceipt, completedRelays, sub, eose,
                 deadline, timerFired, overallFired, now, arrivals, resolved, result>>
  /\ UNCHANGED <<matcher, batch, payment, recipientPubkey, filter>>

\* ConnectFail without the try/catch of lines 889-956: the rejection reaches
\* Promise.all and its catch handler resolves the query with null
ConnectFailRejects(r) ==
  /\ called /\ r \in Active
  /\ conn[r] = "connecting"
  /\ conn' = [conn EXCEPT ![r] = "failed"]
  /\ relayResolved' = [relayResolved EXCEPT ![r] = TRUE]
  /\ IF ~resolved
     THEN resolved' = TRUE /\ result' = Null
     ELSE UNCHANGED <<resolved, result>>
  /\ UNCHANGED <<called, invoice, totalRelays, zapReceipt, completedRelays, sub, eose,
                 deadline, timerFired, overallFired, now, arrivals>>
  /\ UNCHANGED <<rejected, matcher, batch, payment>>
  /\ UNCHANGED <<recipientPubkey, filter>>

\* await relay.connect() throws: the catch block, the branch's promise settles
ConnectFail(r) ==
  /\ called /\ r \in Active
  /\ conn[r] = "connecting"
  /\ conn' = [conn EXCEPT ![r] = "failed"]
  /\ relayResolved' = [relayResolved EXCEPT ![r] = TRUE]
  /\ Join(totalRelays, relayResolved', zapReceipt)
  /\ UNCHANGED <<called, invoice, totalRelays, zapReceipt, completedRelays, sub, eose,
                 deadline, timerFired, overallFired, now, arrivals>>
  /\ UNCHANGED <<rejected, matcher, batch, payment>>
  /\ UNCHANGED <<recipientPubkey, filter>>

\* OnEvent without the guard if (!zapReceipt) of line 920
OnEventNoGuard(r, event) ==
  /\ called /\ r \in Active
  /\ sub[r] = "open"
  /\ Len(arrivals) < MaxEvents
  /\ arrivals' = Append(arrivals, event)
  /\ LET parsed == parseZapReceipt(event, invoice)
     IN IF parsed # Null
        THEN /\ zapReceipt' = parsed
             /\ sub' = [sub EXCEPT ![r] = "closed"]
             /\ relayResolved' = [relayResolved EXCEPT ![r] = TRUE]
        ELSE UNCHANGED <<zapReceipt, sub, relayResolved>>
  /\ Join(totalRelays, relayResolved', zapReceipt')
  /\ UNCHANGED <<called, invoice, totalRelays, completedRelays, conn, eose, deadline,
                 timerFired, overallFired, now>>
  /\ UNCHANGED <<rejected, matcher, batch, payment>>
  /\ UNCHANGED <<recipientPubkey, filter>>

\* OnEventQuery that gives up on a relay at the first record the matcher
\* rejects: the subscription is closed and the branch completes
OnEventQueryRejectCloses(r, event) ==
  /\ called /\ r \in Active
  /\ sub[r] = "open"
  /\ Len(arrivals) < MaxEvents
  /\ arrivals' = Append(arrivals, event)
  /\ LET parsed == parseZapReceipt(event, invoice)
     IN IF zapReceipt = Null
        THEN /\ zapReceipt' = parsed
             /\ sub' = [sub EXCEPT ![r] = "closed"]
             /\ relayResolved' = [relayResolved EXCEPT ![r] = TRUE]
        ELSE UNCHANGED <<zapReceipt, sub, relayResolved>>
  /\ Join(totalRelays, relayResolved', zapReceipt')
  /\ UNCHANGED <<called, invoice, totalRelays, completedRelays, conn, eose, deadline,
                 timerFired, overallFired, now>>
  /\ UNCHANGED <<rejected, recipientPubkey, filter>>

\* onevent(event) of relay r's subscription: its effect on the query
OnEventQuery(r, event) ==
  /\ called /\ r \in Active
  /\ sub[r] = "open"
  /\ Len(arrivals) < MaxEvents
  /\ arrivals' = Append(arrivals, event)
  /\ LET parsed == parseZapReceipt(event, invoice)
     IN IF zapReceipt = Null /\ parsed # Null
        THEN /\ zapReceipt' = parsed
             /\ sub' = [sub EXCEPT ![r] = "closed"]
             /\ relayResolved' = [relayResolved EXCEPT ![r] = TRUE]
        ELSE UNCHANGED <<zapReceipt, sub, relayResolved>>
  /\ Join(totalRelays, relayResolved', zapReceipt')
  /\ UNCHANGED <<called, invoice, totalRelays, completedRelays, conn, eose, deadline,
                 timerFired, overallFired, now>>
  /\ UNCHANGED <<rejected, recipientPubkey, filter>>

\* onevent(event) of relay r's subscription
OnEvent(r, event) ==
  /\ OnEventQuery(r, event)
  /\ UNCHANGED <<matcher, batch, payment>>

\* OnEose without the sub.close() of line 937
OnEoseNoClose(r) ==
  /\ called /\ r \in Active
  /\ sub[r] = "open" /\ ~eose[r]
  /\ eose' = [eose EXCEPT ![r] = TRUE]
  /\ completedRelays' = completedRelays + 1
  /\ IF completedRelays' >= totalRelays \/ zapReceipt # Null
     THEN relayResolved' = [relayResolved EXCEPT ![r] = TRUE]
     ELSE UNCHANGED relayResolved
  /\ Join(totalRelays, relayResolved', zapReceipt)
  /\ UNCHANGED <<called, invoice, totalRelays, zapReceipt, conn, deadline, timerFired,
                 overallFired, now, arrivals, sub>>
  /\ UNCHANGED <<rejected, matcher, batch, payment>>
  /\ UNCHANGED <<recipientPubkey, filter>>

\* oneose() of relay r's subscription
OnEose(r) ==
  /\ called /\ r \in Active
  /\ sub[r] = "open"
  /\ eose' = [eose EXCEPT ![r] = TRUE]
  /\ sub' = [sub EXCEPT ![r] = "closed"]
  /\ completedRelays' = completedRelays + 1
  /\ IF completedRelays' >= totalRelays \/ zapReceipt # Null
     THEN relayResolved' = [relayResolved EXCEPT ![r] = TRUE]
     ELSE UNCHANGED relayResolved
  /\ Join(totalRelays, relayResolved', zapReceipt)
  /\ UNCHANGED <<called, invoice, totalRelays, zapReceipt, conn, deadline, timerFired,
                 overallFired, now, arrivals>>
  /\ UNCHANGED <<rejected, matcher, batch, payment>>
  /\ UNCHANGED <<recipientPubkey, filter>>

\* RelayTimeout that closes the subscription without resolveRelay()
RelayTimeoutNoResolve(r) ==
  /\ called /\ r \in Active
  /\ deadline[r] >= 0 /\ deadline[r] <= now /\ ~timerFired[r]
  /\ timerFired' = [timerFired EXCEPT ![r] = TRUE]
  /\ sub' = [sub EXCEPT ![r] = "closed"]
  /\ UNCHANGED <<called, invoice, totalRelays, zapReceipt, completedRelays, conn, eose,
                 deadline, overallFired, now, arrivals, relayResolved, resolved, result>>
  /\ UNCHANGED <<rejected, matcher, batch, payment>>
  /\ UNCHANGED <<recipientPubkey, filter>>

\* RelayTimeout with one sub variable shared by the branches: the callback
\* closes whatever subscription is open
RelayTimeoutClosesAll(r) ==
  /\ called /\ r \in Active
  /\ deadline[r] >= 0 /\ deadline[r] <= now /\ ~timerFired[r]
  /\ timerFired' = [timerFired EXCEPT ![r] = TRUE]
  /\ sub' = [s \in Relays |-> IF s = r \/ sub[s] = "open" THEN "closed" ELSE sub[s]]
  /\ relayResolved' = [relayResolved EXCEPT ![r] = TRUE]
  /\ Join(totalRelays, relayResolved', zapReceipt)
  /\ UNCHANGED <<called, invoice, totalRelays, zapReceipt, completedRelays, conn, eose,
                 deadline, overallFired, now, arrivals>>
  /\ UNCHANGED <<rejected, matcher, batch, payment>>
  /\ UNCHANGED <<recipientPubkey, filter>>

\* the 5 s setTimeout callback of relay r
RelayTimeout(r) ==
  /\ called /\ r \in Active
  /\ deadline[r] >= 0 /\ deadline[r] <= now /\ ~timerFired[r]
  /\ timerFired' = [timerFired EXCEPT ![r] = TRUE]
  /\ sub' = [sub EXCEPT ![r] = "closed"]
  /\ relayResolved' = [relayResolved EXCEPT ![r] = TRUE]
  /\ Join(totalRelays, relayResolved', zapReceipt)
  /\ UNCHANGED <<called, invoice, totalRelays, zapReceipt, completedRelays, conn, eose,
                 deadline, overallFired, now, arrivals>>
  /\ UNCHANGED <<rejected, matcher, batch, payment>>
  /\ UNCHANGED <<recipientPubkey, filter>>

\* OverallTimeout whose callback never calls resolve
OverallTimeoutNoResolve ==
  /\ called
  /\ now >= OverallTimeoutMs /\ ~overallFired
  /\ overallFired' = TRUE
  /\ UNCHANGED <<called, invoice, totalRelays, zapReceipt, completedRelays, conn, sub,
                 eose, deadline, timerFired, relayResolved, now, resolved, result, arrivals>>
  /\ UNCHANGED <<rejected, matcher, batch, payment>>
  /\ UNCHANGED <<recipientPubkey, filter>>

\* OverallTimeout without the guard if (!zapReceipt) of line 977
OverallTimeoutAlwaysNull ==
  /\ called
  /\ now >= OverallTimeoutMs /\ ~overallFired
  /\ overallFired' = TRUE
  /\ IF ~resolved
     THEN resolved' = TRUE /\ result' = Null
     ELSE UNCHANGED <<resolved, result>>
  /\ UNCHANGED <<called, invoice, totalRelays, zapReceipt, completedRelays, conn, sub,
                 eose, deadline, timerFired, relayResolved, now, arrivals>>
  /\ UNCHANGED <<rejected, matcher, batch, payment>>
  /\ UNCHANGED <<recipientPubkey, filter>>

\* the 10 s setTimeout callback of the query
OverallTimeout ==
  /\ called
  /\ now >= OverallTimeoutMs /\ ~overallFired
  /\ overallFired' = TRUE
  /\ IF zapReceipt = Null /\ ~resolved
     THEN resolved' = TRUE /\ result' = Null
     ELSE UNCHANGED <<resolved, result>>
  /\ UNCHANGED <<called, invoice, totalRelays, zapReceipt, completedRelays, conn, sub,
                 eose, deadline, timerFired, relayResolved, now>>
  /\ UNCHANGED arrivals
  /\ UNCHANGED <<rejected, matcher, batch, payment>>
  /\ UNCHANGED <<recipientPubkey, filter>>

\* a timer whose time has come runs before the clock moves on
TimerDue ==
  \/ (now >= OverallTimeoutMs /\ ~overallFired)
  \/ \E r \in Active : deadline[r] >= 0 /\ deadline[r] <= now /\ ~timerFired[r]

\* time passes
Tick ==
  /\ called
  /\ ~TimerDue
  /\ now + TickMs <= MaxTicks * TickMs
  /\ now' = now + TickMs
  /\ UNCHANGED <<called, invoice, totalRelays, zapReceipt, completedRelays, conn, sub,
                 eose, deadline, timerFired, relayResolved, overallFired, resolved,
                 result, arrivals>>
  /\ UNCHANGED <<rejected, matcher, batch, payment>>
  /\ UNCHANGED <<recipientPubkey, filter>>

Next ==
  \/ \E inv \in Invoices, n \in 0..MaxRelays : Call(inv, n)
  \/ \E r \in Relays : ConnectOk(r)
  \/ \E r \in Relays : ConnectFail(r)
  \/ \E r \in Relays, event \in RelayEvents : OnEvent(r, event)
  \/ \E r \in Relays : OnEose(r)
  \/ \E r \in Relays : RelayTimeout(r)
  \/ OverallTimeout
  \/ Tick

Spec == Init /\ [][Next]_vars

-----------------------------------------------------------------------------
(* Vocabulary of the properties *)

\* a branch in a terminal state: connect failed, EOSE received or its timer fired
Terminal(r) == conn[r] = "failed" \/ eose[r] \/ timerFired[r]

\* no relay of the call has responded: each is still connecting, or connected
\* without having delivered a record or EOSE
Silent ==
  /\ arrivals = << >>
  /\ \A r \in Active : conn[r] \in {"connecting", "connected"} /\ ~eose[r]

\* everything that belongs to the branch of relay r: its connection, its
\* subscription and filter, its EOSE, its timer and its completion signal
Branch(r) ==
  <<conn[r], sub[r], filter[r], eose[r], deadline[r], timerFired[r], relayResolved[r]>>

\* the record fields a match is built from (lines 817-846)
BuiltFrom(m, event) ==
  /\ m.senderPubkey = JsonParse(TagValue(event.tags, "description")).pubkey
  /\ m.recipientPubkey = TagValue(event.tags, "p")
  /\ m.eventId = TagValue(event.tags, "e")

\* the match of the first record of log, from position i on, that the matcher
\* accepts for invoice inv; Null if there is none
RECURSIVE FirstAcceptedFrom(_, _, _)
FirstAcceptedFrom(log, inv, i) ==
  IF i > Len(log) THEN Null
  ELSE IF parseZapReceipt(log[i], inv) # Null THEN parseZapReceipt(log[i], inv)
  ELSE FirstAcceptedFrom(log, inv, i + 1)

-----------------------------------------------------------------------------
(* Properties *)

\* C1: as soon as a relay branch has accepted a matching record (before the
\* overall timer), the query is resolved with that match, whatever the other
\* branches are still doing.
C1_FirstMatchResolves ==
  (zapReceipt # Null /\ ~overallFired) => (resolved /\ result = zapReceipt)

\* C2: once the overall timer (10 s) has fired the query is resolved, whether
\* or not a match had been recorded by then.
C2_ResolvedByOverallTimeout ==
  overallFired => resolved

\* C3: after the query has resolved no relay connection it opened remains open.
C3_NoConnectionLeftOpen ==
  resolved => \A r \in Active : conn[r] # "connected"

\* C4: the match slot is written at most once, it always holds the match of the
\* first record, in arrival order across all relays, that parseZapReceipt
\* accepts, and a non-null value returned by the query is that slot's value.
C4_SlotWrittenOnceByFirstMatch ==
  /\ [](zapReceipt = FirstAcceptedFrom(arrivals, invoice, 1))
  /\ []((resolved /\ result # Null) => result = zapReceipt)
  /\ [][zapReceipt # Null => zapReceipt' = zapReceipt]_vars

\* C4 witness: two accepted-by-the-matcher records with different matches have
\* arrived, and the query returned the first one's match.
C4_Witness ==
  /\ Len(arrivals) = 2
  /\ parseZapReceipt(arrivals[1], invoice) # Null
  /\ parseZapReceipt(arrivals[2], invoice) # Null
  /\ parseZapReceipt(arrivals[2], invoice) # parseZapReceipt(arrivals[1], invoice)
  /\ resolved /\ result = parseZapReceipt(arrivals[1], invoice)

\* C5: a non-null result was built from a record that a relay delivered and
\* whose first bolt11 tag value equals the invoice of the query.
C5_ResultFromRecordOfInvoice ==
  (resolved /\ result # Null) =>
    \E i \in 1..Len(arrivals) :
      /\ TagValue(arrivals[i].tags, "bolt11") = invoice
      /\ BuiltFrom(result, arrivals[i])

\* C5 witness: the query has returned a match although a record that is not a
\* receipt of the invoice had arrived before the matching one.
C5_Witness ==
  /\ resolved /\ result # Null
  /\ Len(arrivals) = 2
  /\ parseZapReceipt(arrivals[1], invoice) = Null
  /\ BuiltFrom(result, arrivals[2])

\* C6: in the step in which a branch accepts a match, every subscription of the
\* query is closed: no sibling's subscription is left open.
C6_SiblingsCancelledOnMatch ==
  [][(zapReceipt = Null /\ zapReceipt' # Null) =>
       \A r \in Active : sub'[r] # "open"]_vars

\* C7: with no match, the query is resolved to null as soon as every branch is
\* terminal (connect failed, EOSE received or per-relay timer fired).
C7_NullOnceAllTerminal ==
  (called /\ zapReceipt = Null /\ \A r \in Active : Terminal(r)) =>
    (resolved /\ result = Null)

\* C8: when no relay has responded (each still connecting, or connected and
\* silent), the query is resolved to null once the overall timer has fired,
\* and the clock never passes the overall timeout before that.
C8_BoundedLatency ==
  (called /\ Silent /\ (overallFired \/ now > OverallTimeoutMs)) =>
    (resolved /\ result = Null)

\* C8 witness: the overall timer has fired with one relay still connecting and
\* another connected and silent.
C8_Witness ==
  /\ called /\ Silent /\ overallFired
  /\ \E r \in Active : conn[r] = "connecting"
  /\ \E r \in Active : conn[r] = "connected"
  /\ resolved /\ result = Null

\* C9: the step that resolves the query gives it the value of the match slot:
\* a match accepted before (or in) that step is the result, never null.
C9_AcceptedMatchIsResult ==
  [][(~resolved /\ resolved') =>
       /\ result' = zapReceipt'
       /\ (zapReceipt # Null => result' = zapReceipt)]_vars

\* C9 witness: the query returned a match while another relay drained without
\* a match and the overall timer has fired.
C9_Witness ==
  /\ resolved /\ result # Null /\ result = zapReceipt
  /\ \E r \in Active : eose[r]

\* C10: a failing connect changes only its own branch: the siblings' connection,
\* subscription, timer and completion are untouched, the match slot is
\* untouched, and the query resolves in that step only if every branch's
\* promise is settled, and then with the match slot's value (a match delivered
\* by another relay), not with a failure.
C10_ConnectFailureIsLocal ==
  [][\A r \in Relays :
       (conn[r] = "connecting" /\ conn'[r] = "failed") =>
         /\ \A s \in Relays \ {r} :
              /\ conn'[s] = conn[s] /\ sub'[s] = sub[s]
              /\ deadline'[s] = deadline[s] /\ timerFired'[s] = timerFired[s]
              /\ relayResolved'[s] = relayResolved[s] /\ eose'[s] = eose[s]
         /\ relayResolved'[r] /\ sub'[r] = "none"
         /\ zapReceipt' = zapReceipt /\ completedRelays' = completedRelays
         /\ (~resolved /\ resolved') =>
              /\ \A s \in Active : relayResolved'[s]
              /\ result' = zapReceipt]_vars

\* C10 witness: one relay failed to connect and the query returned the match
\* delivered by another relay.
C10_Witness ==
  /\ resolved /\ result # Null
  /\ \E r \in Active : conn[r] = "failed"
  /\ \E s \in Active : conn[s] = "connected" /\ ~eose[s] /\ ~timerFired[s]

\* C11: the promise returned by the query is never rejected, and when it is
\* settled its value is null or a match (sender, recipient, event id, comment).
C11_NeverRejects ==
  /\ ~rejected
  /\ resolved =>
       \/ result = Null
       \/ DOMAIN result = {"senderPubkey", "recipientPubkey", "eventId", "comment"}

\* C11 witness: every relay of a call with several relays failed to connect and
\* the query settled with null.
C11_Witness ==
  /\ called /\ totalRelays >= 2
  /\ \A r \in Active : conn[r] = "failed"
  /\ resolved /\ result = Null /\ ~rejected

\* C12: with no match, once more than the per-relay timeout (5 s) has passed
\* since the call, every branch is terminal, whether it was still connecting or
\* subscribed.
C12_BranchTerminalByPerRelayTimeout ==
  (called /\ zapReceipt = Null /\ now > PerRelayTimeoutMs) =>
    \A r \in Active : Terminal(r)

\* C13: once the query has resolved, no subscription of the query is open:
\* those opened before are closed and none is opened afterwards.
C13_NoSubscriptionOpenOnceResolved ==
  resolved => \A r \in Active : sub[r] # "open"

\* C14: a call with an empty relay list fails with an error instead of
\* resolving to a value.
C14_EmptyRelayListFails ==
  (called /\ totalRelays = 0) => (rejected /\ ~resolved)

\* C21: the handling of a record that the matcher rejects changes nothing of
\* the query: the match slot, the completed-relay count, every branch's
\* completion, connection, subscription and timer, and the query's resolution
\* and result are as before, so the run goes on as it would without the record.
C21_RejectedRecordContributesNothing ==
  [][(/\ Len(arrivals') = Len(arrivals) + 1
      /\ parseZapReceipt(arrivals'[Len(arrivals')], invoice) = Null) =>
       UNCHANGED <<zapReceipt, completedRelays, relayResolved, sub, conn, eose,
                   deadline, timerFired, overallFired, resolved, result, rejected>>]_vars

\* C21 witness: one relay delivered a record of another invoice to a query of
\* two subscribed relays; both subscriptions are still open and nothing is
\* recorded or completed.
C21_Witness ==
  /\ totalRelays = 2 /\ Len(arrivals) = 1
  /\ TagValue(arrivals[1].tags, "bolt11") # invoice
  /\ parseZapReceipt(arrivals[1], invoice) = Null
  /\ \A r \in Active : sub[r] = "open" /\ ~relayResolved[r]
  /\ zapReceipt = Null /\ completedRelays = 0 /\ ~resolved

\* C23: a relay that has signalled EOSE has its subscription closed from then
\* on; a record is handed to onevent, and the match slot is written, only
\* through the open subscription of a relay that has not signalled EOSE.
C23_DrainedIsTerminal ==
  /\ [](\A r \in Active : eose[r] => sub[r] = "closed")
  /\ [][arrivals' # arrivals =>
         \E r \in Active : ~eose[r] /\ sub[r] = "open"]_vars
  /\ [][zapReceipt' # zapReceipt =>
         \E r \in Active : ~eose[r] /\ sub[r] = "open" /\ sub'[r] = "closed"]_vars

\* C23 witness: the first relay drained without completing its branch, and
\* the match was then taken from the second relay, which never drained.
C23_Witness ==
  /\ totalRelays = 2
  /\ eose[1] /\ sub[1] = "closed" /\ ~relayResolved[1]
  /\ ~eose[2] /\ sub[2] = "closed" /\ relayResolved[2]
  /\ zapReceipt # Null /\ Len(arrivals) = 1

\* C24: after the call, every step (record, EOSE, per-relay timeout, connect
\* success or failure, overall timeout) changes the connection, subscription,
\* timer and completion signal of at most one branch: a handler of one branch
\* leaves every other branch as it was.
C24_BranchIsolation ==
  [][called =>
       \A r \in Relays, s \in Relays :
         (r # s /\ Branch(r)' # Branch(r)) => Branch(s)' = Branch(s)]_vars

\* C24 witness: the timer of the first relay has closed and completed its own
\* branch while the second relay, connected later, is still subscribed.
C24_Witness ==
  /\ totalRelays = 2
  /\ timerFired[1] /\ sub[1] = "closed" /\ relayResolved[1]
  /\ conn[2] = "connected" /\ sub[2] = "open" /\ ~timerFired[2] /\ ~relayResolved[2]
  /\ deadline[2] > deadline[1]

\* C27: once the query has resolved it stays resolved with the same value,
\* whatever happens afterwards: a record accepted later by a branch that is
\* still subscribed, or the completion of the remaining branches.
C27_ResultIsFinal ==
  [][resolved => (resolved' /\ result' = result)]_vars

\* C27 witness: the overall timer resolved the query to null, then a relay
\* that was still subscribed delivered a matching record and every branch
\* completed; the value the caller received is still null.
C27_Witness ==
  /\ overallFired /\ resolved /\ result = Null
  /\ zapReceipt # Null
  /\ totalRelays >= 1 /\ \A r \in Active : relayResolved[r]

\* C28: the timer of a subscribed relay has fired once the clock has passed
\* the per-relay timeout (5 s) after its subscription was opened; and when the
\* connect attempt of every relay has completed and the timer of every
\* subscribed relay has fired, the query is resolved, with or without EOSE or
\* a match.
C28_ResolvedAfterLastPerRelayTimeout ==
  /\ \A r \in Active : (deadline[r] >= 0 /\ now > deadline[r]) => timerFired[r]
  /\ (/\ called
      /\ \A r \in Active : conn[r] \in {"connected", "failed"}
      /\ \A r \in Active : conn[r] = "connected" => timerFired[r]) => resolved

\* C28 witness: two relays subscribed 5 s apart, neither sent a record or
\* EOSE; the query resolved to null when the later relay's timer fired, before
\* the overall timer ran.
C28_Witness ==
  /\ totalRelays = 2 /\ arrivals = << >>
  /\ \A r \in Active : conn[r] = "connected" /\ ~eose[r] /\ timerFired[r]
  /\ deadline[1] = PerRelayTimeoutMs /\ deadline[2] = 2 * PerRelayTimeoutMs
  /\ now = deadline[2] /\ ~overallFired
  /\ resolved /\ result = Null

-----------------------------------------------------------------------------
(* The matcher on arbitrary records: a query of one relay whose subscription  *)
(* is open receives one record, drawn from every combination of tags below.  *)

\* the bolt11 tags of a record: none, one without a value, one with an empty
\* value, one per invoice, and two in either order
Bolt11Tags ==
  { << >>, << <<"bolt11">> >>, << <<"bolt11", "">> >>,
    << <<"bolt11", "lnbc100n1p">> >>, << <<"bolt11", "lnbc200n1p">> >>,
    << <<"bolt11", "lnbc100n1p">>, <<"bolt11", "lnbc200n1p">> >>,
    << <<"bolt11", "lnbc200n1p">>, <<"bolt11", "lnbc100n1p">> >> }

\* the values of a description tag
Descriptions ==
  { "", "not json", "null", ZapRequest1, ZapRequest2,
    "{\"kind\":9734,\"pubkey\":\"sender2\",\"content\":\"\"}",
    "{\"kind\":9734,\"pubkey\":\"\",\"content\":\"gm\"}",
    "{\"kind\":9734,\"content\":\"gm\"}",
    "{\"kind\":1,\"pubkey\":\"sender1\",\"content\":\"gm\"}",
    "{\"pubkey\":\"sender1\",\"content\":\"gm\"}" }

DescriptionTags == { << >> } \cup { << <<"description", d>> >> : d \in Descriptions }

\* the p tags of a record
RecipientTags ==
  { << >>, << <<"p">> >>, << <<"p", Recipient>> >>,
    << <<"p", "def456">>, <<"p", Recipient>> >> }

\* the e tags of a record
EventTags ==
  { << >>, << <<"e", "note1">> >>, << <<"e", "note2">>, <<"e", "note1">> >> }

\* the records the matcher is studied on
MatcherEvents ==
  { [tags |-> b \o d \o p \o e] :
      b \in Bolt11Tags, d \in DescriptionTags, p \in RecipientTags, e \in EventTags }

\* a query of one relay, connected and subscribed at time 0, and the record
\* that relay is about to deliver
MatcherInit ==
  /\ called = TRUE
  /\ invoice \in Invoices
  /\ totalRelays = 1
  /\ zapReceipt = Null
  /\ completedRelays = 0
  /\ conn = [r \in Relays |-> IF r = 1 THEN "connected" ELSE "none"]
  /\ sub = [r \in Relays |-> IF r = 1 THEN "open" ELSE "none"]
  /\ eose = [r \in Relays |-> FALSE]
  /\ deadline = [r \in Relays |-> IF r = 1 THEN PerRelayTimeoutMs ELSE -1]
  /\ timerFired = [r \in Relays |-> FALSE]
  /\ relayResolved = [r \in Relays |-> FALSE]
  /\ overallFired = FALSE
  /\ resolved = FALSE
  /\ result = Null
  /\ now = 0
  /\ arrivals = << >>
  /\ rejected = FALSE
  /\ \E event \in MatcherEvents : matcher = [MatcherIdle EXCEPT !.event = event]
  /\ batch = BatchIdle
  /\ recipientPubkey = Recipient
  /\ filter = [r \in Relays |-> IF r = 1 THEN SubscriptionFilter(Recipient) ELSE NoFilter]
  /\ payment = PaymentIdle

\* onevent(matcher.event) of the relay's subscription, with what
\* parseZapReceipt returned and logged for it
MatcherDeliver ==
  /\ ~matcher.applied
  /\ OnEventQuery(1, matcher.event)
  /\ matcher' = [matcher EXCEPT
                   !.applied = TRUE,
                   !.parsed = parseZapReceipt(matcher.event, invoice),
                   !.gate = parseZapReceiptExit(matcher.event, invoice).gate,
                   !.log = parseZapReceiptExit(matcher.event, invoice).log]
  /\ UNCHANGED <<batch, payment>>

MatcherNext ==
  \/ MatcherDeliver
  \/ OnEose(1)
  \/ RelayTimeout(1)
  \/ OverallTimeout
  \/ Tick

SpecMatcher == MatcherInit /\ [][MatcherNext]_vars

-----------------------------------------------------------------------------
(* Vocabulary of the matcher's properties *)

\* the zap request embedded in a record
RequestOf(event) == JsonParse(TagValue(event.tags, "description"))

\* a record well-formed apart from its bolt11 tag: its description holds a
\* kind-9734 request with a non-empty pubkey, and it has a p tag with a value
WellFormedApartFromBolt11(event) ==
  /\ RequestOf(event).ok /\ ~RequestOf(event).isNull
  /\ RequestOf(event).kind = ZapRequestKind
  /\ ~Falsy(RequestOf(event).pubkey)
  /\ ~Falsy(TagValue(event.tags, "p"))

\* one of the gates after the bolt11 comparison fails: description absent or
\* not JSON, kind other than 9734, p tag absent, pubkey absent or empty
LaterGateFails(event) ==
  \/ TagValue(event.tags, "description") = Undef
  \/ ~RequestOf(event).ok
  \/ RequestOf(event).kind # ZapRequestKind
  \/ FindFrom(event.tags, "p", 1) = 0
  \/ Falsy(RequestOf(event).pubkey)

\* whether gate g (1 bolt11 present, 2 bolt11 equal, 3 description present,
\* 4 description parseable, 5 kind, 6 recipient, 7 sender) fails on a record
GateFails(g, event, inv) ==
  CASE g = 1 -> Falsy(TagValue(event.tags, "bolt11"))
    [] g = 2 -> TagValue(event.tags, "bolt11") # inv
    [] g = 3 -> Falsy(TagValue(event.tags, "description"))
    [] g = 4 -> ~RequestOf(event).ok
    [] g = 5 -> RequestOf(event).isNull \/ RequestOf(event).kind # ZapRequestKind
    [] g = 6 -> Falsy(TagValue(event.tags, "p"))
    [] g = 7 -> Falsy(RequestOf(event).pubkey)

\* the tags of a record that have a given key, in tag order
TagsWithKey(tags, key) == SelectSeq(tags, LAMBDA t : Len(t) >= 1 /\ t[1] = key)

\* the value of the first of them (Undef when there is none or it has no value)
FirstValue(tags, key) ==
  IF TagsWithKey(tags, key) = << >> THEN Undef
  ELSE IF Len(TagsWithKey(tags, key)[1]) >= 2 THEN TagsWithKey(tags, key)[1][2]
  ELSE Undef

\* the first gate, in that order, that fails on a record; 0 if none does
FirstFailingGate(event, inv) ==
  IF \E g \in 1..7 : GateFails(g, event, inv)
  THEN CHOOSE g \in 1..7 :
         GateFails(g, event, inv) /\ \A h \in 1..(g - 1) : ~GateFails(h, event, inv)
  ELSE 0

-----------------------------------------------------------------------------
(* Properties of the matcher *)

\* C15: a record that is well-formed apart from its bolt11 tag is rejected by
\* parseZapReceipt if and only if its (first) bolt11 tag value is not exactly
\* the invoice.
C15_FingerprintExactness ==
  (matcher.applied /\ WellFormedApartFromBolt11(matcher.event)) =>
    (matcher.parsed = Null <=> TagValue(matcher.event.tags, "bolt11") # invoice)

\* C15 witness: a well-formed receipt of the other invoice, which differs from
\* the query's invoice in one character, has been rejected.
C15_Witness ==
  /\ matcher.applied /\ WellFormedApartFromBolt11(matcher.event)
  /\ invoice = "lnbc100n1p"
  /\ TagValue(matcher.event.tags, "bolt11") = "lnbc200n1p"
  /\ matcher.parsed = Null

\* C16: a record whose bolt11 tag equals the invoice but which fails a later
\* gate is rejected, leaves the match slot empty and is never the result of
\* the query.
C16_LaterGatesReject ==
  (/\ matcher.applied
   /\ TagValue(matcher.event.tags, "bolt11") = invoice
   /\ LaterGateFails(matcher.event)) =>
    /\ matcher.parsed = Null
    /\ zapReceipt = Null
    /\ resolved => result = Null

\* C16 witness: a receipt of the invoice whose request has an empty pubkey was
\* delivered and the query resolved to null.
C16_Witness ==
  /\ matcher.applied
  /\ TagValue(matcher.event.tags, "bolt11") = invoice
  /\ RequestOf(matcher.event).ok /\ RequestOf(matcher.event).kind = ZapRequestKind
  /\ RequestOf(matcher.event).pubkey = ""
  /\ ~Falsy(TagValue(matcher.event.tags, "p"))
  /\ resolved /\ result = Null

\* C17: for an accepted record the match has the request's pubkey as sender,
\* the record's p tag value as recipient, its e tag value (undefined without
\* an e tag) as event id, and the request's content, or "" when it has none,
\* as comment.
C17_MatchFields ==
  (matcher.applied /\ matcher.parsed # Null) =>
    /\ matcher.parsed.senderPubkey = RequestOf(matcher.event).pubkey
    /\ matcher.parsed.recipientPubkey = TagValue(matcher.event.tags, "p")
    /\ matcher.parsed.eventId =
         (IF FindFrom(matcher.event.tags, "e", 1) = 0 THEN Undef
          ELSE TagValue(matcher.event.tags, "e"))
    /\ matcher.parsed.comment =
         (IF RequestOf(matcher.event).content = Undef THEN ""
          ELSE RequestOf(matcher.event).content)

\* C17 witness: an accepted record without an e tag whose request has no
\* content.
C17_Witness ==
  /\ matcher.applied /\ matcher.parsed # Null
  /\ FindFrom(matcher.event.tags, "e", 1) = 0
  /\ RequestOf(matcher.event).content = Undef
  /\ matcher.parsed.eventId = Undef /\ matcher.parsed.comment = ""

\* C18: parseZapReceipt returns at the first gate, in the order bolt11 present,
\* bolt11 equal, description present, description parseable, kind, recipient,
\* sender, that fails on the record, and accepts exactly when none fails; only
\* the two bolt11 gates are silent; a record without a bolt11 value is rejected
\* at the first gate whatever else is wrong with it.
C18_FirstFailingGateRejects ==
  matcher.applied =>
    /\ matcher.gate = FirstFailingGate(matcher.event, invoice)
    /\ (matcher.gate = 0) <=> (matcher.parsed # Null)
    /\ (matcher.log = "") <=> (matcher.gate \in {0, 1, 2})
    /\ Falsy(TagValue(matcher.event.tags, "bolt11")) =>
         (matcher.gate = 1 /\ matcher.parsed = Null)

\* C18 witness: a record without bolt11 tag, without p tag and with a
\* description that is not JSON was rejected at the first gate.
C18_Witness ==
  /\ matcher.applied
  /\ FindFrom(matcher.event.tags, "bolt11", 1) = 0
  /\ FindFrom(matcher.event.tags, "p", 1) = 0
  /\ TagValue(matcher.event.tags, "description") = "not json"
  /\ matcher.gate = 1 /\ matcher.log = ""

C30_FirstTagOfAKeyWins ==
  matcher.applied =>
    /\ FirstValue(matcher.event.tags, "bolt11") # invoice => matcher.parsed = Null
    /\ matcher.parsed # Null =>
         /\ matcher.parsed.recipientPubkey = FirstValue(matcher.event.tags, "p")
         /\ matcher.parsed.eventId = FirstValue(matcher.event.tags, "e")

\* C30 witness: a record, well-formed otherwise, whose first bolt11 tag is
\* another invoice and whose second bolt11 tag is the query's invoice has been
\* rejected and the match slot is empty.
C30_Witness ==
  /\ matcher.applied /\ WellFormedApartFromBolt11(matcher.event)
  /\ Len(TagsWithKey(matcher.event.tags, "bolt11")) = 2
  /\ TagsWithKey(matcher.event.tags, "bolt11")[1][2] # invoice
  /\ TagsWithKey(matcher.event.tags, "bolt11")[2][2] = invoice
  /\ matcher.parsed = Null /\ zapReceipt = Null

-----------------------------------------------------------------------------
(* fetchZapReceiptsForInvoices: one fetchZapReceiptForInvoice call per listed *)
(* invoice, all running concurrently.  batch.q[i] is the per-call state of    *)
(* the i-th query (the variables of lines 880-882 and its branches); the      *)
(* timers of a query may fire at any time after they were armed.              *)

\* the variables of the single query studied above
queryVars == <<called, invoice, totalRelays, zapReceipt, completedRelays, conn, sub, eose,
               deadline, timerFired, relayResolved, overallFired, resolved, result, now,
               arrivals, rejected, recipientPubkey, filter>>

\* the invoice lists a batch is called with
BatchInvoiceLists ==
  { << >>, <<"lnbc100n1p">>, <<"lnbc100n1p", "lnbc200n1p">>, <<"lnbc100n1p", "lnbc100n1p">> }

BatchRelaySet == 1..BatchRelays

\* the state of a query right after its call with an invoice and a
\* recipientPubkey argument (Undef when the argument is left out)
QStart(inv, rcpt) ==
  [invoice |-> inv, recipientPubkey |-> rcpt, zapReceipt |-> Null, completedRelays |-> 0,
   totalRelays |-> BatchRelays,
   conn |-> [r \in BatchRelaySet |-> "connecting"],
   sub |-> [r \in BatchRelaySet |-> "none"],
   filter |-> [r \in BatchRelaySet |-> NoFilter],
   timerFired |-> [r \in BatchRelaySet |-> FALSE],
   relayResolved |-> [r \in BatchRelaySet |-> FALSE],
   overallFired |-> FALSE, resolved |-> FALSE, result |-> Null]

\* Promise.all(relayPromises).then(() => resolve(zapReceipt)) of one query
QJoin(qs) ==
  IF ~qs.resolved /\ \A r \in BatchRelaySet : qs.relayResolved[r]
  THEN [qs EXCEPT !.resolved = TRUE, !.result = qs.zapReceipt]
  ELSE qs

\* await relay.connect() returns in one query
QConnectOk(qs, r) ==
  [qs EXCEPT !.conn[r] = "connected", !.sub[r] = "open",
             !.filter[r] = SubscriptionFilter(qs.recipientPubkey)]

\* await relay.connect() throws in one query
QConnectFail(qs, r) ==
  QJoin([qs EXCEPT !.conn[r] = "failed", !.relayResolved[r] = TRUE])

\* onevent(event) in one query
QOnEvent(qs, r, event) ==
  LET parsed == parseZapReceipt(event, qs.invoice)
  IN IF qs.zapReceipt = Null /\ parsed # Null
     THEN QJoin([qs EXCEPT !.zapReceipt = parsed, !.sub[r] = "closed",
                           !.relayResolved[r] = TRUE])
     ELSE qs

\* oneose() in one query
QOnEose(qs, r) ==
  LET counted == [qs EXCEPT !.sub[r] = "closed", !.completedRelays = @ + 1]
  IN IF counted.completedRelays >= counted.totalRelays \/ counted.zapReceipt # Null
     THEN QJoin([counted EXCEPT !.relayResolved[r] = TRUE])
     ELSE counted

\* the 5 s setTimeout callback of a relay in one query
QRelayTimeout(qs, r) ==
  QJoin([qs EXCEPT !.timerFired[r] = TRUE, !.sub[r] = "closed", !.relayResolved[r] = TRUE])

\* the 10 s setTimeout callback of one query
QOverallTimeout(qs) ==
  IF qs.zapReceipt = Null /\ ~qs.resolved
  THEN [qs EXCEPT !.overallFired = TRUE, !.resolved = TRUE, !.result = Null]
  ELSE [qs EXCEPT !.overallFired = TRUE]

\* results.set(invoice, receipt)
MapSet(results, key, value) ==
  [k \in DOMAIN results \cup {key} |-> IF k = key THEN value ELSE results[k]]

\* BatchSettle without the test if (receipt) of line 1002
BatchSettleNoTest(b, i, qs) ==
  LET newly == qs.resolved /\ ~b.q[i].resolved
      nq == [b.q EXCEPT ![i] = qs]
  IN [b EXCEPT
        !.q = nq,
        !.results = IF newly THEN MapSet(b.results, qs.invoice, qs.result) ELSE @,
        !.returned = \A j \in DOMAIN nq : nq[j].resolved]

\* the batch after a callback left query i in state qs: when the query has just
\* resolved, the arrow function of line 1000 resumes and records a non-null
\* receipt; when every arrow function is done, Promise.all lets the batch return
BatchSettle(b, i, qs) ==
  LET newly == qs.resolved /\ ~b.q[i].resolved
      nq == [b.q EXCEPT ![i] = qs]
  IN [b EXCEPT
        !.q = nq,
        !.results = IF newly /\ qs.result # Null
                    THEN MapSet(b.results, qs.invoice, qs.result) ELSE @,
        !.returned = \A j \in DOMAIN nq : nq[j].resolved]

\* the call of fetchZapReceiptsForInvoices: one query per listed invoice, each
\* called with the invoice as its only argument; an empty list returns the
\* empty map
BatchCall(list) ==
  /\ ~batch.called
  /\ batch' = [called |-> TRUE, invoices |-> list,
               q |-> [i \in 1..Len(list) |-> QStart(list[i], Undef)],
               results |-> << >>, returned |-> Len(list) = 0]
  /\ UNCHANGED <<queryVars, matcher, payment>>

BatchConnectOk(i, r) ==
  /\ batch.called /\ i \in DOMAIN batch.q
  /\ batch.q[i].conn[r] = "connecting"
  /\ batch' = BatchSettle(batch, i, QConnectOk(batch.q[i], r))
  /\ UNCHANGED <<queryVars, matcher, payment>>

BatchConnectFail(i, r) ==
  /\ batch.called /\ i \in DOMAIN batch.q
  /\ batch.q[i].conn[r] = "connecting"
  /\ batch' = BatchSettle(batch, i, QConnectFail(batch.q[i], r))
  /\ UNCHANGED <<queryVars, matcher, payment>>

\* BatchOnEvent with the match slot declared outside the call (one zapReceipt
\* for the module instead of one per query)
BatchOnEventSharedSlot(i, r, event) ==
  /\ batch.called /\ i \in DOMAIN batch.q
  /\ batch.q[i].sub[r] = "open"
  /\ LET after == BatchSettle(batch, i, QOnEvent(batch.q[i], r, event))
     IN batch' = [after EXCEPT
                    !.q = [j \in DOMAIN after.q |->
                             [after.q[j] EXCEPT !.zapReceipt = after.q[i].zapReceipt]]]
  /\ UNCHANGED <<queryVars, matcher, payment>>

BatchOnEvent(i, r, event) ==
  /\ batch.called /\ i \in DOMAIN batch.q
  /\ batch.q[i].sub[r] = "open"
  /\ batch' = BatchSettle(batch, i, QOnEvent(batch.q[i], r, event))
  /\ UNCHANGED <<queryVars, matcher, payment>>

BatchOnEose(i, r) ==
  /\ batch.called /\ i \in DOMAIN batch.q
  /\ batch.q[i].sub[r] = "open"
  /\ batch' = BatchSettle(batch, i, QOnEose(batch.q[i], r))
  /\ UNCHANGED <<queryVars, matcher, payment>>

BatchRelayTimeout(i, r) ==
  /\ batch.called /\ i \in DOMAIN batch.q
  /\ batch.q[i].conn[r] = "connected" /\ ~batch.q[i].timerFired[r]
  /\ batch' = BatchSettle(batch, i, QRelayTimeout(batch.q[i], r))
  /\ UNCHANGED <<queryVars, matcher, payment>>

BatchOverallTimeout(i) ==
  /\ batch.called /\ i \in DOMAIN batch.q
  /\ ~batch.q[i].overallFired
  /\ batch' = BatchSettle(batch, i, QOverallTimeout(batch.q[i]))
  /\ UNCHANGED <<queryVars, matcher, payment>>

\* the positions of a list of at most two invoices
BatchQueries == 1..2

BatchNext ==
  \/ \E list \in BatchInvoiceLists : BatchCall(list)
  \/ \E i \in BatchQueries, r \in BatchRelaySet : BatchConnectOk(i, r)
  \/ \E i \in BatchQueries, r \in BatchRelaySet : BatchConnectFail(i, r)
  \/ \E i \in BatchQueries, r \in BatchRelaySet, event \in RelayEvents : BatchOnEvent(i, r, event)
  \/ \E i \in BatchQueries, r \in BatchRelaySet : BatchOnEose(i, r)
  \/ \E i \in BatchQueries, r \in BatchRelaySet : BatchRelayTimeout(i, r)
  \/ \E i \in BatchQueries : BatchOverallTimeout(i)

SpecBatch == Init /\ [][BatchNext]_vars

-----------------------------------------------------------------------------
(* Properties of the batch *)

\* C19: when fetchZapReceiptsForInvoices has returned, the query of every listed
\* invoice has resolved, the keys of the returned map are exactly the listed
\* invoices one of whose queries resolved to a match, and each key is mapped to
\* the result of a query of that invoice.
C19_BatchMapIsTheMatches ==
  batch.returned =>
    /\ \A i \in DOMAIN batch.q : batch.q[i].resolved
    /\ DOMAIN batch.results =
         { batch.invoices[i] : i \in { j \in DOMAIN batch.q : batch.q[j].result # Null } }
    /\ \A k \in DOMAIN batch.results :
         \E i \in DOMAIN batch.q :
           batch.invoices[i] = k /\ batch.results[k] = batch.q[i].result

\* C19 witness: a batch of two invoices has returned a map with the one
\* invoice that matched; the other invoice is absent.
C19_Witness ==
  /\ batch.returned
  /\ batch.invoices = <<"lnbc100n1p", "lnbc200n1p">>
  /\ batch.q[1].result # Null /\ batch.q[2].result = Null
  /\ DOMAIN batch.results = {"lnbc100n1p"}
  /\ batch.results["lnbc100n1p"] = batch.q[1].result

\* C20: a callback of one query (record, EOSE, timeout, connect failure)
\* changes the state of that query only: the match slot, the completed-relay
\* count, the subscriptions and the result of every other query of the batch
\* stay as they were.
C20_QueriesAreSelfContained ==
  [][batch.called =>
       \A i \in DOMAIN batch.q :
         batch'.q[i] # batch.q[i] =>
           \A j \in DOMAIN batch.q \ {i} : batch'.q[j] = batch.q[j]]_vars

\* C20 witness: two concurrent queries of the same invoice, one resolved to a
\* match with no EOSE counted, the other, after its EOSE, to null.
C20_Witness ==
  /\ batch.called /\ batch.invoices = <<"lnbc100n1p", "lnbc100n1p">>
  /\ batch.q[1].resolved /\ batch.q[1].result # Null /\ batch.q[1].completedRelays = 0
  /\ batch.q[2].resolved /\ batch.q[2].result = Null /\ batch.q[2].zapReceipt = Null
  /\ batch.q[2].completedRelays = 1

-----------------------------------------------------------------------------
(* fetchZapReceiptForPayment: the caller gate and the enrichment of a payment *)
(* by the result of one fetchZapReceiptForInvoice call.  payment.q[1] is the  *)
(* per-call state of that query.                                              *)

\* the payments the enrichment is called with: both directions, isZap absent,
\* false or true (a zap carries its zap members), invoice absent, empty or set
PaymentInputs ==
  { PaymentInfo(type, zap, inv,
                IF zap = "true" THEN "sender9" ELSE Undef,
                IF zap = "true" THEN Recipient ELSE Undef,
                IF zap = "true" THEN "note9" ELSE Undef,
                IF zap = "true" THEN "hi" ELSE Undef) :
      type \in {"send", "receive"}, zap \in {Undef, "false", "true"},
      inv \in {Undef, ""} \cup Invoices }

\* the userPubkey arguments of the call
UserPubkeys == {Recipient, "def456"}

\* the test of line 1628
PaymentGate(p) ==
  p.paymentType # "receive" \/ p.isZap = "true" \/ Falsy(p.invoice)

\* the assignments of lines 1641-1645
Enriched(p, receipt) ==
  [p EXCEPT !.isZap = "true",
            !.zapSenderPubkey = receipt.senderPubkey,
            !.zapRecipientPubkey = receipt.recipientPubkey,
            !.zapEventId = receipt.eventId,
            !.zapComment = receipt.comment]

\* PaymentCall whose gate does not look at isZap
PaymentCallNoZapTest(p, pk) ==
  /\ ~payment.called
  /\ payment' = [PaymentIdle EXCEPT
                   !.called = TRUE, !.given = p, !.fields = p, !.userPubkey = pk,
                   !.stage = IF p.paymentType # "receive" \/ Falsy(p.invoice)
                             THEN "returned" ELSE "import"]
  /\ UNCHANGED <<queryVars, matcher, batch>>

\* the call of fetchZapReceiptForPayment(payment, userPubkey): the gate returns
\* the payment at once, otherwise the call suspends at await import(...)
PaymentCall(p, pk) ==
  /\ ~payment.called
  /\ payment' = [PaymentIdle EXCEPT
                   !.called = TRUE, !.given = p, !.fields = p, !.userPubkey = pk,
                   !.stage = IF PaymentGate(p) THEN "returned" ELSE "import"]
  /\ UNCHANGED <<queryVars, matcher, batch>>

\* the import succeeded: fetchZapReceiptForInvoice(payment.invoice, userPubkey)
PaymentImportOk ==
  /\ payment.stage = "import"
  /\ payment' = [payment EXCEPT
                   !.stage = "query",
                   !.q = <<QStart(payment.fields.invoice, payment.userPubkey)>>]
  /\ UNCHANGED <<queryVars, matcher, batch>>

\* PaymentImportFail without the try/catch of lines 1632-1655
PaymentImportFailThrows ==
  /\ payment.stage = "import"
  /\ payment' = [payment EXCEPT !.stage = "returned", !.threw = TRUE]
  /\ UNCHANGED <<queryVars, matcher, batch>>

\* the import failed: the catch block returns the payment
PaymentImportFail ==
  /\ payment.stage = "import"
  /\ payment' = [payment EXCEPT !.stage = "returned"]
  /\ UNCHANGED <<queryVars, matcher, batch>>

\* PaymentSettle that marks the payment as a zap whatever the query returned
PaymentSettleNoTest(pay, qs) ==
  LET newly == qs.resolved /\ ~pay.q[1].resolved
  IN [pay EXCEPT
        !.q = <<qs>>,
        !.fields = IF newly
                   THEN IF qs.result # Null THEN Enriched(@, qs.result)
                        ELSE [@ EXCEPT !.isZap = "true"]
                   ELSE @,
        !.stage = IF newly THEN "returned" ELSE @]

\* the call after a callback left its query in state qs: when the query has
\* just resolved, the call resumes after await, enriches the payment if the
\* receipt is not null, and returns it
PaymentSettle(pay, qs) ==
  LET newly == qs.resolved /\ ~pay.q[1].resolved
  IN [pay EXCEPT
        !.q = <<qs>>,
        !.fields = IF newly /\ qs.result # Null THEN Enriched(@, qs.result) ELSE @,
        !.stage = IF newly THEN "returned" ELSE @]

PaymentConnectOk(r) ==
  /\ payment.q # << >>
  /\ payment.q[1].conn[r] = "connecting"
  /\ payment' = PaymentSettle(payment, QConnectOk(payment.q[1], r))
  /\ UNCHANGED <<queryVars, matcher, batch>>

PaymentConnectFail(r) ==
  /\ payment.q # << >>
  /\ payment.q[1].conn[r] = "connecting"
  /\ payment' = PaymentSettle(payment, QConnectFail(payment.q[1], r))
  /\ UNCHANGED <<queryVars, matcher, batch>>

PaymentOnEvent(r, event) ==
  /\ payment.q # << >>
  /\ payment.q[1].sub[r] = "open"
  /\ payment' = PaymentSettle(payment, QOnEvent(payment.q[1], r, event))
  /\ UNCHANGED <<queryVars, matcher, batch>>

PaymentOnEose(r) ==
  /\ payment.q # << >>
  /\ payment.q[1].sub[r] = "open"
  /\ payment' = PaymentSettle(payment, QOnEose(payment.q[1], r))
  /\ UNCHANGED <<queryVars, matcher, batch>>

PaymentRelayTimeout(r) ==
  /\ payment.q # << >>
  /\ payment.q[1].conn[r] = "connected" /\ ~payment.q[1].timerFired[r]
  /\ payment' = PaymentSettle(payment, QRelayTimeout(payment.q[1], r))
  /\ UNCHANGED <<queryVars, matcher, batch>>

PaymentOverallTimeout ==
  /\ payment.q # << >>
  /\ ~payment.q[1].overallFired
  /\ payment' = PaymentSettle(payment, QOverallTimeout(payment.q[1]))
  /\ UNCHANGED <<queryVars, matcher, batch>>

PaymentNext ==
  \/ \E p \in PaymentInputs, pk \in UserPubkeys : PaymentCall(p, pk)
  \/ PaymentImportOk
  \/ PaymentImportFail
  \/ \E r \in BatchRelaySet : PaymentConnectOk(r)
  \/ \E r \in BatchRelaySet : PaymentConnectFail(r)
  \/ \E r \in BatchRelaySet, event \in RelayEvents : PaymentOnEvent(r, event)
  \/ \E r \in BatchRelaySet : PaymentOnEose(r)
  \/ \E r \in BatchRelaySet : PaymentRelayTimeout(r)
  \/ PaymentOverallTimeout

SpecPayment == Init /\ [][PaymentNext]_vars

-----------------------------------------------------------------------------
(* Properties of the enrichment *)

\* C22: fetchZapReceiptForPayment starts the relay query only for a payment
\* of type receive whose isZap is not set and that has an invoice; for every
\* other payment it has returned the payment, every member as given, without
\* starting a query (no relay is contacted), and it never starts one later.
C22_CallerGate ==
  payment.called =>
    /\ payment.q # << >> =>
         /\ payment.given.paymentType = "receive"
         /\ payment.given.isZap \in {Undef, "false"}
         /\ payment.given.invoice \in Invoices
    /\ (\/ payment.given.paymentType # "receive"
        \/ payment.given.isZap = "true"
        \/ payment.given.invoice \in {Undef, ""}) =>
         /\ payment.stage = "returned" /\ ~payment.threw
         /\ payment.fields = payment.given
         /\ payment.q = << >>

\* C22 witness: an incoming payment with an invoice that is already a zap was
\* returned as given and no query was started.
C22_Witness ==
  /\ payment.called /\ payment.stage = "returned"
  /\ payment.given.paymentType = "receive" /\ payment.given.isZap = "true"
  /\ payment.given.invoice = "lnbc100n1p"
  /\ payment.fields = payment.given /\ payment.q = << >>

\* C26: fetchZapReceiptForPayment never throws; the payment keeps its type and
\* invoice; when the call has returned and its query resolved to a match, isZap
\* is true and sender, recipient, event id and comment are those of the match;
\* in every other case (query not started, import failed, query resolved to
\* null) every member of the payment is as given.
C26_EnrichOnlyOnMatch ==
  payment.called =>
    /\ ~payment.threw
    /\ payment.fields.paymentType = payment.given.paymentType
    /\ payment.fields.invoice = payment.given.invoice
    /\ IF payment.q # << >> /\ payment.q[1].resolved /\ payment.q[1].result # Null
       THEN /\ payment.stage = "returned"
            /\ payment.fields.isZap = "true"
            /\ payment.fields.zapSenderPubkey = payment.q[1].result.senderPubkey
            /\ payment.fields.zapRecipientPubkey = payment.q[1].result.recipientPubkey
            /\ payment.fields.zapEventId = payment.q[1].result.eventId
            /\ payment.fields.zapComment = payment.q[1].result.comment
       ELSE payment.fields = payment.given
    /\ (payment.q # << >> /\ payment.q[1].resolved) => payment.stage = "returned"

\* C26 witness: an incoming payment whose isZap was false has been returned as
\* a zap of sender2 for note1, without comment.
C26_Witness ==
  /\ payment.stage = "returned" /\ payment.given.isZap = "false"
  /\ payment.fields.isZap = "true"
  /\ payment.fields.zapSenderPubkey = "sender2"
  /\ payment.fields.zapRecipientPubkey = Recipient
  /\ payment.fields.zapEventId = "note1"
  /\ payment.fields.zapComment = ""

-----------------------------------------------------------------------------
(* Properties of the subscription filter *)

\* a filter for receipts (kind 9735) addressed to a defined recipient, capped
\* at 50 results
FilterWellFormed(f) ==
  /\ f.kinds = <<ZapReceiptKind>>
  /\ Len(f.p) = 1 /\ f.p[1] # Undef
  /\ f.limit = FilterLimit

\* C25: every subscription a query has opened, whether the query was called
\* directly, by the enrichment of a payment or by the batch variant, was
\* opened with a filter of kind 9735, a defined recipient as the #p constraint
\* and a limit of 50.
C25_EverySubscriptionFiltered ==
  /\ \A r \in Active : sub[r] # "none" => FilterWellFormed(filter[r])
  /\ \A i \in DOMAIN payment.q : \A r \in BatchRelaySet :
       payment.q[i].sub[r] # "none" => FilterWellFormed(payment.q[i].filter[r])
  /\ \A i \in DOMAIN batch.q : \A r \in BatchRelaySet :
       batch.q[i].sub[r] # "none" => FilterWellFormed(batch.q[i].filter[r])

=============================================================================
